---- MODULE Spec2Model ----
(***************************************************************************)
(* A model of lib/pipeline.js: class Pipeline, a Duplex stream composed of *)
(* an ordered, mutable list of member streams ("stages").                  *)
(*                                                                         *)
(* The member streams and the Duplex base class are host primitives; they  *)
(* are modelled as far as the pipeline's code calls them: listener lists   *)
(* (on / once / removeListener / emit), pipe / unpipe, write, read, end,   *)
(* push.  Every stage is an identity transform with a writable-side queue  *)
(* (wq) and a readable-side buffer (buf).  Chunks are numbered in write    *)
(* order: the k-th chunk written to the pipeline is k.                     *)
(***************************************************************************)
EXTENDS Integers, Sequences, FiniteSets, TLC

\* ------------------------------------------------------------------ bounds
MaxLen == 3       \* longest stage list a mutation call may build
MaxNew == 1       \* most stages handed to one mutation call
MaxChunks == 3    \* chunks written to the pipeline
HWM == 2          \* options.highWaterMark, in chunks, of the pipeline and stages
MaxEmits == 1     \* bound events re-emitted
MaxBound == 1     \* stages that carry a listener registry at the same time

\* The stage objects that exist.
Stages == {"A", "B", "C", "D"}
Chunks == 1..MaxChunks
Events == {"custom", "other"}

VARIABLES
  streams,     \* this._streams: the ordered stage list
  pipes,       \* per stage, the destinations it is piped to (in pipe order)
  readL,       \* per stage, attached copies of this._readHandler ('readable')
  endL,        \* per stage, attached copies of this._endHandler ('end')
  errH,        \* per stage, attached copies of this._errorHandler ('error')
  reg,         \* per stage, stream._pipageListeners
  att,         \* per stage and event, attached forwarding handlers
  wq,          \* per stage, chunks written and not yet transformed
  buf,         \* per stage, chunks transformed and not yet read
  ended,       \* per stage, end() was called on it
  eofRead,     \* per stage, a read() found the ended stage empty
  endEmitted,  \* per stage, it has emitted 'end'
  out,         \* the pipeline's own readable buffer (push)
  delivered,   \* chunks the external consumer has taken
  reading,     \* Readable state: _read was called and nothing pushed since
  resume,      \* pending once('_read') listeners on the pipeline
  writing,     \* Writable state: a _write whose callback has not fired
  nw,          \* chunks written to the pipeline so far
  wret,        \* what the last _write returned
  wdone,       \* completed _write callbacks
  endCalled,   \* end() was called on the pipeline
  finished,    \* the pipeline has emitted 'finish'
  cEnded,      \* push(null) was called on the pipeline
  cEndEmitted, \* the pipeline has emitted 'end'
  raised,      \* the latest error raised by a stage: the stage, and a tick that
               \* tells it from the error before it
  errLog,      \* the 'error' events the pipeline emitted for that error
  fwdLog,      \* bound events re-emitted by the pipeline, in order
  args,        \* SpecCall only: the arguments of the one call it makes
  call,        \* the mutation call that has just returned, and its result
  mark         \* the number of chunks written when the last mutation returned

topo == <<streams, pipes, readL, endL, errH, reg, att>>
flow == <<wq, buf, ended, eofRead, endEmitted, out, delivered, reading,
          resume, writing, nw, wret, wdone, endCalled, finished, cEnded,
          cEndEmitted>>
logs == <<raised, errLog, fwdLog>>
vars == <<topo, flow, logs, args, call, mark>>

\* ------------------------------------------------------------- helpers
Max(a, b) == IF a >= b THEN a ELSE b
Min(a, b) == IF a <= b THEN a ELSE b
Range(s) == {s[i] : i \in 1..Len(s)}
Distinct(s) == \A i, j \in 1..Len(s) : s[i] = s[j] => i = j

\* Sequences of pairwise distinct elements of S, of length at most n.
RECURSIVE DistinctSeqs(_, _)
DistinctSeqs(S, n) ==
  IF n = 0 THEN {<<>>}
  ELSE LET shorter == DistinctSeqs(S, n - 1)
       IN shorter \cup
          {Append(p[1], p[2]) :
             p \in {q \in shorter \X S : Len(q[1]) = n - 1 /\ q[2] \notin Range(q[1])}}

\* The first occurrence of d removed from sequence q (Array indexOf + splice).
RECURSIVE RemoveFirst(_, _)
RemoveFirst(q, d) ==
  IF q = <<>> THEN <<>>
  ELSE IF Head(q) = d THEN Tail(q)
  ELSE <<Head(q)>> \o RemoveFirst(Tail(q), d)

\* ------------------------------------------------ host primitives (topology)
\* EventEmitter.on / removeListener for one fixed listener function: the number
\* of attached copies.  removeListener detaches one copy, if there is one.
on(cnt, s) == [cnt EXCEPT ![s] = @ + 1]
removeListener(cnt, s) == [cnt EXCEPT ![s] = IF @ > 0 THEN @ - 1 ELSE 0]

\* Array.prototype.splice(start, deleteCount, ...items) on a 0-indexed array:
\* a negative start counts from the end and start is clamped into [0, len],
\* deleteCount is clamped into [0, len - start].
ArraySplice(arr, start, deleteCount, items) ==
  LET len == Len(arr)
      actualStart == IF start < 0 THEN Max(len + start, 0) ELSE Min(start, len)
      actualDelete == Min(Max(deleteCount, 0), len - actualStart)
  IN [list    |-> SubSeq(arr, 1, actualStart) \o items
                    \o SubSeq(arr, actualStart + actualDelete + 1, len),
      removed |-> SubSeq(arr, actualStart + 1, actualStart + actualDelete)]

\* Array.prototype.indexOf(x): 0-based index of the first occurrence, or -1.
indexOf(arr, x) ==
  IF x \in Range(arr)
  THEN (CHOOSE i \in 1..Len(arr) : arr[i] = x /\ \A j \in 1..(i - 1) : arr[j] # x) - 1
  ELSE -1

\* src.unpipe(dest): no effect unless dest is among src's destinations.
unpipe(T, src, dest) ==
  IF dest \in Range(T.pipes[src])
  THEN [T EXCEPT !.pipes[src] = RemoveFirst(@, dest)]
  ELSE T

\* src.pipe(dest): dest is added to src's destinations; a source that has
\* already emitted 'end' ends the destination right away.
pipe(T, src, dest) ==
  [T EXCEPT !.pipes[src] = Append(@, dest),
            !.ended[dest] = @ \/ endEmitted[src]]

\* ------------------------------------------------------------ the pipeline
\* The fields of the pipeline and of its stages that a mutation call touches.
Self ==
  [streams |-> streams, pipes |-> pipes, readL |-> readL, endL |-> endL,
   errH |-> errH, reg |-> reg, att |-> att, ended |-> ended]

Install(T) ==
  /\ streams' = T.streams
  /\ pipes' = T.pipes
  /\ readL' = T.readL
  /\ endL' = T.endL
  /\ errH' = T.errH
  /\ reg' = T.reg
  /\ att' = T.att
  /\ ended' = T.ended

NoListeners == [on |-> FALSE, h |-> [e \in Events |-> "absent"]]

length == Len(streams)

\* get(index): <<stage>>, or <<>> for undefined.
get(index) ==
  LET i == IF index >= 0 THEN index ELSE Len(streams) + index
  IN IF i >= 0 /\ i < Len(streams) THEN <<streams[i + 1]>> ELSE <<>>

\* forEach((stream, i) => { next = streams[i+1]; if (next) stream.unpipe(next) })
RECURSIVE UnpipeFrom(_, _)
UnpipeFrom(T, i) ==
  IF i >= Len(T.streams) THEN T
  ELSE UnpipeFrom(unpipe(T, T.streams[i], T.streams[i + 1]), i + 1)

RECURSIVE PipeFrom(_, _)
PipeFrom(T, i) ==
  IF i >= Len(T.streams) THEN T
  ELSE PipeFrom(pipe(T, T.streams[i], T.streams[i + 1]), i + 1)

\* Fault: _beforeMutate that unpipes but leaves the flow listeners attached.
_beforeMutate_keepListeners(T) == UnpipeFrom(T, 1)

\* Fault: _beforeMutate that detaches the flow listeners but leaves the pipes.
_beforeMutate_noUnpipe(T) ==
  LET n == Len(T.streams)
  IN IF n > 0
     THEN [T EXCEPT !.readL = removeListener(@, T.streams[n]),
                    !.endL = removeListener(@, T.streams[n])]
     ELSE T

_beforeMutate(T) ==
  LET n == Len(T.streams)
      T1 == IF n > 0
            THEN [T EXCEPT !.readL = removeListener(@, T.streams[n]),
                           !.endL = removeListener(@, T.streams[n])]
            ELSE T
  IN UnpipeFrom(T1, 1)

\* Fault: _afterMutate that attaches the flow listeners but pipes nothing.
_afterMutate_noPipe(T) ==
  LET n == Len(T.streams)
  IN IF n > 0
     THEN [T EXCEPT !.readL = on(@, T.streams[n]),
                    !.endL = on(@, T.streams[n])]
     ELSE T

_afterMutate(T) ==
  LET n == Len(T.streams)
      T1 == IF n > 0
            THEN [T EXCEPT !.readL = on(@, T.streams[n]),
                           !.endL = on(@, T.streams[n])]
            ELSE T
  IN PipeFrom(T1, 1)

\* Fault: bind without the test that prevents double-binding.
bind_noTest(T, s, E) ==
  LET r0 == IF T.reg[s].on THEN T.reg[s] ELSE [NoListeners EXCEPT !.on = TRUE]
  IN [T EXCEPT !.reg[s] = [r0 EXCEPT !.h = [e \in Events |->
                                       IF e \in E THEN "fn" ELSE r0.h[e]]],
               !.att[s] = [e \in Events |-> IF e \in E THEN @[e] + 1 ELSE @[e]]]

\* bind(stream, events)
bind(T, s, E) ==
  LET r0 == IF T.reg[s].on THEN T.reg[s] ELSE [NoListeners EXCEPT !.on = TRUE]
      fresh == {e \in E : r0.h[e] # "fn"}
  IN [T EXCEPT !.reg[s] = [r0 EXCEPT !.h = [e \in Events |->
                                       IF e \in fresh THEN "fn" ELSE r0.h[e]]],
               !.att[s] = [e \in Events |-> IF e \in fresh THEN @[e] + 1 ELSE @[e]]]

\* unbind(stream, events)
unbind(T, s, E) ==
  IF ~T.reg[s].on THEN T
  ELSE LET bound == {e \in E : T.reg[s].h[e] = "fn"}
       IN [T EXCEPT !.att[s] = [e \in Events |->
                                  IF e \in bound /\ @[e] > 0 THEN @[e] - 1 ELSE @[e]],
                    !.reg[s].h = [e \in Events |->
                                    IF e \in bound THEN "null" ELSE @[e]]]

\* Fault: unbindAll that drops the registry without detaching its handlers.
unbindAll_registryOnly(T, s) ==
  IF T.reg[s].on THEN [T EXCEPT !.reg[s] = NoListeners] ELSE T

\* unbindAll(stream)
unbindAll(T, s) ==
  IF T.reg[s].on
  THEN [unbind(T, s, {e \in Events : T.reg[s].h[e] # "absent"})
          EXCEPT !.reg[s] = NoListeners]
  ELSE T

\* streams.forEach(stream => stream.on('error', this._errorHandler))
RECURSIVE AttachErrors(_, _)
AttachErrors(T, items) ==
  IF items = <<>> THEN T
  ELSE AttachErrors([T EXCEPT !.errH = on(@, Head(items))], Tail(items))

\* Fault: the clean-up of removed stages without unbindAll(stream).
RECURSIVE CleanRemoved_keepBindings(_, _)
CleanRemoved_keepBindings(T, removed) ==
  IF removed = <<>> THEN T
  ELSE CleanRemoved_keepBindings(
         [T EXCEPT !.errH = removeListener(@, Head(removed))], Tail(removed))

\* Fault: the clean-up of removed stages without removeListener('error', ...).
RECURSIVE CleanRemoved_keepError(_, _)
CleanRemoved_keepError(T, removed) ==
  IF removed = <<>> THEN T
  ELSE CleanRemoved_keepError(unbindAll(T, Head(removed)), Tail(removed))

\* removed.forEach(stream => { removeListener('error', ...); unbindAll(stream) })
RECURSIVE CleanRemoved(_, _)
CleanRemoved(T, removed) ==
  IF removed = <<>> THEN T
  ELSE CleanRemoved(
         unbindAll([T EXCEPT !.errH = removeListener(@, Head(removed))],
                   Head(removed)),
         Tail(removed))

\* splice(index, remove, ...streams).  remove is <<>> when the argument is
\* omitted and <<k>> when it is k.  The result is the new state and the
\* returned array of removed stages.
splice(T, index, remove, items) ==
  LET n == Len(T.streams)
      idx == IF index >= 0 THEN index ELSE n + index
      rem0 == IF remove # <<>> THEN remove[1] ELSE n - idx
      rem == Max(0, Min(n - idx, rem0))
      T1 == _beforeMutate(T)
      T2 == AttachErrors(T1, items)
      sp == ArraySplice(T2.streams, idx, rem, items)
      T3 == [T2 EXCEPT !.streams = sp.list]
      T4 == CleanRemoved(T3, sp.removed)
  IN [T |-> _afterMutate(T4), removed |-> sp.removed]

\* ------------------------------------------------- the pipeline: data flow
\* The fields a pull touches.
ReadSelf ==
  [buf |-> buf, out |-> out, resume |-> resume, eofRead |-> eofRead,
   reading |-> reading]

InstallRead(R) ==
  /\ buf' = R.buf
  /\ out' = R.out
  /\ resume' = R.resume
  /\ eofRead' = R.eofRead
  /\ reading' = R.reading

\* Readable.push(chunk) on the pipeline: the chunk joins the pipeline's readable
\* buffer and push reports whether the buffer is still below the high water
\* mark.  After push(null) a chunk is refused.
push(R, chunk) ==
  IF cEnded THEN [R |-> R, more |-> FALSE]
  ELSE LET o == Append(R.out, chunk)
       IN [R |-> [R EXCEPT !.out = o, !.reading = FALSE], more |-> Len(o) < HWM]

\* Fault: the read loop without the break on a refused push.
RECURSIVE ReadLoop_noBreak(_, _)
ReadLoop_noBreak(R, s) ==
  IF R.buf[s] = <<>> THEN [R |-> R, reads |-> 0, sawNull |-> TRUE]
  ELSE LET p == push([R EXCEPT !.buf[s] = Tail(@)], Head(R.buf[s]))
           r == ReadLoop_noBreak(p.R, s)
       IN [R |-> r.R, reads |-> r.reads + 1, sawNull |-> r.sawNull]

\* while ((chunk = stream.read()) != null) { reads++; if (!this.push(chunk)) break }
\* sawNull: the loop ended because read() returned null.
RECURSIVE ReadLoop(_, _)
ReadLoop(R, s) ==
  IF R.buf[s] = <<>> THEN [R |-> R, reads |-> 0, sawNull |-> TRUE]
  ELSE LET p == push([R EXCEPT !.buf[s] = Tail(@)], Head(R.buf[s]))
       IN IF ~p.more THEN [R |-> p.R, reads |-> 1, sawNull |-> FALSE]
          ELSE LET r == ReadLoop(p.R, s)
               IN [R |-> r.R, reads |-> r.reads + 1, sawNull |-> r.sawNull]

\* A stage whose writable side has ended and whose writes are all transformed.
AtEOF(s) == ended[s] /\ wq[s] = <<>>

\* Fault: _read that does not retry after a pull that read nothing.
_read_noRetry(R) ==
  IF streams = <<>> THEN R
  ELSE LET s == streams[Len(streams)]
           L == ReadLoop(R, s)
       IN [L.R EXCEPT !.eofRead[s] = @ \/ (L.sawNull /\ AtEOF(s))]

_read(R) ==
  IF streams = <<>> THEN R
  ELSE LET s == streams[Len(streams)]
           L == ReadLoop(R, s)
           R1 == [L.R EXCEPT !.eofRead[s] = @ \/ (L.sawNull /\ AtEOF(s))]
       IN IF L.reads = 0 THEN [R1 EXCEPT !.resume = @ + 1] ELSE R1

\* this.emit('_read'): every pending once-listener is removed and runs _read.
RECURSIVE ReadTimes(_, _)
ReadTimes(R, k) == IF k = 0 THEN R ELSE ReadTimes(_read(R), k - 1)

_readHandler(R) == ReadTimes([R EXCEPT !.resume = 0], R.resume)

RECURSIVE EmitReadable(_, _)
EmitReadable(R, listeners) ==
  IF listeners = 0 THEN R ELSE EmitReadable(_readHandler(R), listeners - 1)

\* this._errorHandler, called with the raising stage as this: the error as the
\* pipeline re-emits it.
_errorHandler(this) == [stream |-> this]

RECURSIVE Copies(_, _)
Copies(x, k) == IF k = 0 THEN <<>> ELSE <<x>> \o Copies(x, k - 1)

\* No mutation call has just returned.
NoCall == [made |-> FALSE, ret |-> <<>>, threw |-> FALSE]

\* A mutation call has just returned ret (a sequence of stages).
Returned(ret) == [made |-> TRUE, ret |-> ret, threw |-> FALSE]

\* A mutation call has just thrown an Error.
Thrown == [made |-> TRUE, ret |-> <<>>, threw |-> TRUE]

NoError == [stage |-> "none", tick |-> FALSE]

NoArgs ==
  [op |-> "none", index |-> 0, remove |-> <<>>, items |-> <<>>, before |-> <<>>]

\* append(...streams), prepend(...streams), insert(index, ...streams): the new
\* state and the returned length.
append(T, items) ==
  LET r == splice(T, Len(T.streams), <<0>>, items)
  IN [T |-> r.T, len |-> Len(r.T.streams)]

prepend(T, items) ==
  LET r == splice(T, 0, <<0>>, items)
  IN [T |-> r.T, len |-> Len(r.T.streams)]

insert(T, index, items) ==
  LET r == splice(T, index, <<0>>, items)
  IN [T |-> r.T, len |-> Len(r.T.streams)]

\* Argument values that are not numbers, by their typeof.
NonNumbers == {"string", "undefined"}

\* Fault: insert without the typeof test; the index is then coerced and the
\* stages are spliced in at position 0.
insert_noTypeof(T, type, index, items) ==
  [T |-> insert(T, 0, items).T, threw |-> FALSE]

\* insert(index, ...streams) for an index of any type (index is its value when
\* it is a number): if (typeof index !== 'number') throw new Error(...)
insert_typeof(T, type, index, items) ==
  IF type # "number"
  THEN [T |-> T, threw |-> TRUE]
  ELSE [T |-> insert(T, index, items).T, threw |-> FALSE]

\* removed[0]: <<stage>>, or <<>> for undefined.
First(removed) == IF removed = <<>> THEN <<>> ELSE <<removed[1]>>

\* shift(), pop(), remove(stream): the new state and the returned stage.
shift(T) ==
  LET r == splice(T, 0, <<1>>, <<>>)
  IN [T |-> r.T, ret |-> First(r.removed)]

pop(T) ==
  LET r == splice(T, Len(T.streams) - 1, <<1>>, <<>>)
  IN [T |-> r.T, ret |-> First(r.removed)]

\* Fault: remove that splices at indexOf(stream) without testing it.
remove_noTest(T, stage) ==
  LET r == splice(T, indexOf(T.streams, stage), <<1>>, <<>>)
  IN [T |-> r.T, ret |-> First(r.removed)]

remove(T, stage) ==
  LET index == indexOf(T.streams, stage)
  IN IF index # -1
     THEN LET r == splice(T, index, <<1>>, <<>>)
          IN [T |-> r.T, ret |-> First(r.removed)]
     ELSE [T |-> T, ret |-> <<>>]

\* The fields a write touches.
WriteSelf ==
  [wq |-> wq, out |-> out, reading |-> reading, writing |-> writing,
   wdone |-> wdone]

\* stage.write(chunk, encoding, callback): the chunk is queued with its callback
\* and write reports whether the queue is still below the high water mark.
write(W, s, chunk, cb) ==
  LET q == Append(W.wq[s], [c |-> chunk, cb |-> cb])
  IN [W |-> [W EXCEPT !.wq[s] = q], ret |-> Len(q) < HWM]

\* Fault: _write that hands the chunk to the last stage.
_write_lastStage(W, chunk) ==
  IF Len(streams) = 0
  THEN [W |-> [push(W, chunk).R EXCEPT !.wdone = @ + 1], ret |-> "undefined"]
  ELSE LET r == write([W EXCEPT !.writing = TRUE], streams[Len(streams)],
                      chunk, TRUE)
       IN [W |-> r.W, ret |-> IF r.ret THEN "true" ELSE "false"]

\* _write(chunk, encoding, next): the new state and what _write returns.
_write(W, chunk) ==
  IF Len(streams) = 0
  THEN [W |-> [push(W, chunk).R EXCEPT !.wdone = @ + 1], ret |-> "undefined"]
  ELSE LET r == write([W EXCEPT !.writing = TRUE], streams[1], chunk, TRUE)
       IN [W |-> r.W, ret |-> IF r.ret THEN "true" ELSE "false"]

\* Fault: a 'finish' listener that closes the readable side only when there is
\* no stage and otherwise does nothing.
OnFinish_noEnd(F) ==
  IF Len(streams) # 0 THEN F
  ELSE [F EXCEPT !.cEnded = TRUE, !.reading = FALSE]

\* this.on('finish', ...): the first stage is ended, or the pipeline's readable
\* side is closed when there is no stage.
OnFinish(F) ==
  IF Len(streams) # 0
  THEN [F EXCEPT !.ended[streams[1]] = TRUE]
  ELSE [F EXCEPT !.cEnded = TRUE, !.reading = FALSE]

\* this._endHandler: push(null).
_endHandler(F) == [F EXCEPT !.cEnded = TRUE, !.reading = FALSE]

\* ------------------------------------------------------------------ inputs
NoCount == [s \in Stages |-> 0]

Fresh ==
  [streams |-> <<>>, pipes |-> [s \in Stages |-> <<>>], readL |-> NoCount,
   endL |-> NoCount, errH |-> NoCount, reg |-> [s \in Stages |-> NoListeners],
   att |-> [s \in Stages |-> [e \in Events |-> 0]],
   ended |-> [s \in Stages |-> FALSE]]

\* Arguments of a call on a list of n stages: every index from one before -n
\* to one past n, and every count (omitted, or from -1 to one past n).
IndicesFor(n) == (0 - n - 1)..(n + 1)
RemovesFor(n) == {<<>>} \cup {<<k>> : k \in (0 - 1)..(n + 1)}
Indices == IndicesFor(Len(streams))
Removes == RemovesFor(Len(streams))
\* Stages handed to a mutation call: pairwise distinct stages that are not
\* members of the list at the time of the call.
NewFor(list) == DistinctSeqs(Stages \ Range(list), MaxNew)
NewStages == NewFor(streams)
EventSets == SUBSET Events \ {{}}

\* ------------------------------------------------------------------ state
flowRest == <<wq, buf, eofRead, endEmitted, out, delivered, reading, resume,
              writing, nw, wret, wdone, endCalled, finished, cEnded, cEndEmitted>>

Built(T) ==
  /\ streams = T.streams
  /\ pipes = T.pipes
  /\ readL = T.readL
  /\ endL = T.endL
  /\ errH = T.errH
  /\ reg = T.reg
  /\ att = T.att
  /\ ended = T.ended

Idle ==
  /\ wq = [s \in Stages |-> <<>>]
  /\ buf = [s \in Stages |-> <<>>]
  /\ eofRead = [s \in Stages |-> FALSE]
  /\ endEmitted = [s \in Stages |-> FALSE]
  /\ out = <<>>
  /\ delivered = <<>>
  /\ reading = FALSE
  /\ resume = 0
  /\ writing = FALSE
  /\ nw = 0
  /\ wret = "none"
  /\ wdone = 0
  /\ endCalled = FALSE
  /\ finished = FALSE
  /\ cEnded = FALSE
  /\ cEndEmitted = FALSE
  /\ raised = NoError
  /\ errLog = <<>>
  /\ fwdLog = <<>>
  /\ call = NoCall
  /\ mark = 0

\* new Pipeline(streams): splice(0, 0, ...streams) on the empty pipeline.
constructor(list) == splice(Fresh, 0, <<0>>, list).T

\* new Pipeline(): no stage.
Init == Idle /\ args = NoArgs /\ Built(Fresh)

\* ---------------------------------------------------------------- mutation
\* A mutation call returns: T is the state it leaves, ret the stages it returns.
Mutate(T, ret) ==
  /\ Len(T.streams) <= MaxLen
  /\ Install(T)
  /\ call' = Returned(ret)
  /\ mark' = nw
  /\ UNCHANGED <<flowRest, logs, args>>

SpliceCall(index, rm, items) ==
  LET r == splice(Self, index, rm, items) IN [T |-> r.T, ret |-> r.removed]

AppendCall(items) == [T |-> append(Self, items).T, ret |-> <<>>]

PrependCall(items) == [T |-> prepend(Self, items).T, ret |-> <<>>]

InsertCall(index, items) == [T |-> insert(Self, index, items).T, ret |-> <<>>]

ShiftCall == shift(Self)

PopCall == pop(Self)

RemoveCall(stage) == remove(Self, stage)

DoSplice ==
  \E r \in {SpliceCall(index, rm, items) :
              index \in Indices, rm \in Removes, items \in NewStages} :
    Mutate(r.T, r.ret)

DoAppend == \E r \in {AppendCall(items) : items \in NewStages} : Mutate(r.T, r.ret)

DoPrepend == \E r \in {PrependCall(items) : items \in NewStages} : Mutate(r.T, r.ret)

DoInsert ==
  \E r \in {InsertCall(index, items) : index \in Indices, items \in NewStages} :
    Mutate(r.T, r.ret)

\* insert with a non-numeric index.
DoInsertNonNumber ==
  \E type \in NonNumbers, items \in NewStages :
    LET r == insert_typeof(Self, type, 0, items)
    IN /\ Len(r.T.streams) <= MaxLen
       /\ Install(r.T)
       /\ call' = IF r.threw THEN Thrown ELSE Returned(<<>>)
       /\ mark' = IF r.threw THEN mark ELSE nw
       /\ UNCHANGED <<flowRest, logs, args>>

DoShift == Mutate(ShiftCall.T, ShiftCall.ret)

DoPop == Mutate(PopCall.T, PopCall.ret)

DoRemove == \E r \in {RemoveCall(stage) : stage \in Stages} : Mutate(r.T, r.ret)

\* ----------------------------------------------------------- event rebinder
Rebind(T) ==
  /\ Install(T)
  /\ call' = NoCall
  /\ UNCHANGED <<flowRest, logs, args, mark>>

DoBind ==
  \E s \in Stages, E \in EventSets :
    /\ Cardinality({t \in Stages : reg[t].on} \cup {s}) <= MaxBound
    /\ Rebind(bind(Self, s, E))

\* bind on a stage of the list.
DoBindMember ==
  \E s \in Range(streams), E \in EventSets :
    /\ Cardinality({t \in Stages : reg[t].on} \cup {s}) <= MaxBound
    /\ Rebind(bind(Self, s, E))

DoUnbind ==
  \E s \in Stages, E \in EventSets :
    /\ unbind(Self, s, E) # Self
    /\ Rebind(unbind(Self, s, E))

DoUnbindAll ==
  \E s \in Stages :
    /\ unbindAll(Self, s) # Self
    /\ Rebind(unbindAll(Self, s))

\* A stage emits a bound event: every attached forwarding handler re-emits it
\* on the pipeline.
StageEmit ==
  \E s \in Stages, e \in Events :
    /\ Len(fwdLog) < MaxEmits
    /\ att[s][e] > 0
    /\ fwdLog' = fwdLog \o Copies([from |-> s, event |-> e], att[s][e])
    /\ call' = NoCall
    /\ UNCHANGED <<topo, flow, raised, errLog, args, mark>>

\* A stage emits 'error': every attached copy of the error handler re-emits it.
StageError ==
  \E s \in Stages :
    /\ raised' = [stage |-> s, tick |-> ~raised.tick]
    /\ errLog' = Copies(_errorHandler(s), errH[s])
    /\ call' = NoCall
    /\ UNCHANGED <<topo, flow, fwdLog, args, mark>>

\* ---------------------------------------------------------------- data flow
\* The Writable side hands the next chunk to _write (one _write at a time).
Write ==
  /\ nw < MaxChunks
  /\ ~writing
  /\ ~endCalled
  /\ LET r == _write(WriteSelf, nw + 1)
     IN /\ wq' = r.W.wq
        /\ out' = r.W.out
        /\ reading' = r.W.reading
        /\ writing' = r.W.writing
        /\ wdone' = r.W.wdone
        /\ wret' = r.ret
  /\ nw' = nw + 1
  /\ call' = NoCall
  /\ UNCHANGED <<topo, buf, ended, eofRead, endEmitted, delivered, resume,
                 endCalled, finished, cEnded, cEndEmitted, logs, args, mark>>

\* A stage transforms the oldest chunk of its queue (identity) and completes
\* that write, calling its callback.
Transform ==
  \E s \in Stages :
    /\ wq[s] # <<>>
    /\ Len(buf[s]) < HWM
    /\ buf' = [buf EXCEPT ![s] = Append(@, Head(wq[s]).c)]
    /\ wq' = [wq EXCEPT ![s] = Tail(@)]
    /\ writing' = IF Head(wq[s]).cb THEN FALSE ELSE writing
    /\ wdone' = IF Head(wq[s]).cb THEN wdone + 1 ELSE wdone
    /\ call' = NoCall
    /\ UNCHANGED <<topo, ended, eofRead, endEmitted, out, delivered, reading,
                   resume, nw, wret, endCalled, finished, cEnded, cEndEmitted,
                   logs, args, mark>>

\* A piped stage forwards its oldest chunk to its destinations, honouring
\* their backpressure.
PipeFlow ==
  \E s \in Stages :
    /\ pipes[s] # <<>>
    /\ buf[s] # <<>>
    /\ \A d \in Range(pipes[s]) : Len(wq[d]) < HWM /\ ~ended[d]
    /\ buf' = [buf EXCEPT ![s] = Tail(@)]
    /\ wq' = [d \in Stages |->
                wq[d] \o Copies([c |-> Head(buf[s]), cb |-> FALSE],
                                Cardinality({i \in 1..Len(pipes[s]) : pipes[s][i] = d}))]
    /\ call' = NoCall
    /\ UNCHANGED <<topo, ended, eofRead, endEmitted, out, delivered, reading,
                   resume, writing, nw, wret, wdone, endCalled, finished,
                   cEnded, cEndEmitted, logs, args, mark>>

\* The Readable side asks for data: _read.
Pull ==
  /\ ~reading
  /\ ~cEnded
  /\ Len(out) < HWM
  /\ InstallRead(_read([ReadSelf EXCEPT !.reading = TRUE]))
  /\ call' = NoCall
  /\ UNCHANGED <<topo, wq, ended, endEmitted, delivered, writing, nw, wret,
                 wdone, endCalled, finished, cEnded, cEndEmitted, logs, args, mark>>

\* A stage announces 'readable': data is buffered, or its end is reached.
StageReadable ==
  \E s \in Stages :
    /\ readL[s] > 0
    /\ resume > 0
    /\ buf[s] # <<>> \/ (AtEOF(s) /\ ~endEmitted[s])
    /\ InstallRead(EmitReadable(ReadSelf, readL[s]))
    /\ call' = NoCall
    /\ UNCHANGED <<topo, wq, ended, endEmitted, delivered, writing, nw, wret,
                   wdone, endCalled, finished, cEnded, cEndEmitted, logs, args, mark>>

\* The fields completion touches.
EndSelf == [ended |-> ended, cEnded |-> cEnded, reading |-> reading]

InstallEnd(F) ==
  /\ ended' = F.ended
  /\ cEnded' = F.cEnded
  /\ reading' = F.reading

\* A stage emits 'end': it is ended and drained, and it is flowing (piped) or a
\* read() found it empty.  Its destinations are ended (pipe) and every attached
\* copy of the end handler runs.
StageEnd ==
  \E s \in Stages :
    /\ AtEOF(s)
    /\ buf[s] = <<>>
    /\ ~endEmitted[s]
    /\ pipes[s] # <<>> \/ eofRead[s]
    /\ endEmitted' = [endEmitted EXCEPT ![s] = TRUE]
    /\ LET F1 == [EndSelf EXCEPT !.ended = [d \in Stages |->
                                   @[d] \/ d \in Range(pipes[s])]]
       IN InstallEnd(IF endL[s] > 0 THEN _endHandler(F1) ELSE F1)
    /\ call' = NoCall
    /\ UNCHANGED <<topo, wq, buf, eofRead, out, delivered, resume, writing, nw,
                   wret, wdone, endCalled, finished, cEndEmitted, logs, args, mark>>

\* end(): no further input.
End ==
  /\ ~endCalled
  /\ endCalled' = TRUE
  /\ call' = NoCall
  /\ UNCHANGED <<topo, wq, buf, ended, eofRead, endEmitted, out, delivered,
                 reading, resume, writing, nw, wret, wdone, finished, cEnded,
                 cEndEmitted, logs, args, mark>>

\* The pipeline emits 'finish' once every write has completed.
Finish ==
  /\ endCalled
  /\ ~writing
  /\ ~finished
  /\ finished' = TRUE
  /\ InstallEnd(OnFinish(EndSelf))
  /\ call' = NoCall
  /\ UNCHANGED <<topo, wq, buf, eofRead, endEmitted, out, delivered, resume,
                 writing, nw, wret, wdone, endCalled, cEndEmitted, logs, args, mark>>

\* The external consumer takes the oldest chunk of the pipeline's buffer.
Consume ==
  /\ out # <<>>
  /\ delivered' = Append(delivered, Head(out))
  /\ out' = Tail(out)
  /\ call' = NoCall
  /\ UNCHANGED <<topo, wq, buf, ended, eofRead, endEmitted, reading, resume,
                 writing, nw, wret, wdone, endCalled, finished, cEnded,
                 cEndEmitted, logs, args, mark>>

\* The pipeline emits 'end' to its readers: closed and drained.
EmitEnd ==
  /\ cEnded
  /\ out = <<>>
  /\ ~cEndEmitted
  /\ cEndEmitted' = TRUE
  /\ call' = NoCall
  /\ UNCHANGED <<topo, wq, buf, ended, eofRead, endEmitted, out, delivered,
                 reading, resume, writing, nw, wret, wdone, endCalled, finished,
                 cEnded, logs, args, mark>>

Mutation ==
  \/ DoSplice
  \/ DoAppend
  \/ DoPrepend
  \/ DoInsert
  \/ DoShift
  \/ DoPop
  \/ DoRemove

Rebinding ==
  \/ DoBind
  \/ DoUnbind
  \/ DoUnbindAll
  \/ StageEmit

DataFlow ==
  \/ Write
  \/ Transform
  \/ PipeFlow
  \/ Pull
  \/ StageReadable
  \/ StageEnd
  \/ End
  \/ Finish
  \/ Consume
  \/ EmitEnd

Next == Mutation \/ DoInsertNonNumber \/ Rebinding \/ StageError \/ DataFlow
Spec == Init /\ [][Next]_vars

\* One mutation call on a constructed pipeline: the list and the arguments are
\* drawn in the initial state, the call is made once.
CallIndices(n) == (0 - 2 * n - 1)..(n + 1)

ArgsFor(list) ==
  {[op |-> "splice", index |-> i, remove |-> r, items |-> q, before |-> list] :
     i \in CallIndices(Len(list)), r \in RemovesFor(Len(list)), q \in NewFor(list)}
  \cup
  {[op |-> "insert", index |-> i, remove |-> <<>>, items |-> q, before |-> list] :
     i \in CallIndices(Len(list)), q \in NewFor(list)}
  \cup
  {[op |-> o, index |-> 0, remove |-> <<>>, items |-> q, before |-> list] :
     o \in {"append", "prepend"}, q \in NewFor(list)}
  \cup
  {[op |-> o, index |-> 0, remove |-> <<>>, items |-> <<>>, before |-> list] :
     o \in {"shift", "pop"}}
  \cup
  {[op |-> "remove", index |-> 0, remove |-> <<>>, items |-> <<x>>, before |-> list] :
     x \in Stages}

InitCall ==
  /\ Idle
  /\ \E list \in DistinctSeqs(Stages, MaxLen) :
       /\ Built(constructor(list))
       /\ args \in ArgsFor(list)

Apply ==
  /\ ~call.made
  /\ LET r == CASE args.op = "splice" ->
                     SpliceCall(args.index, args.remove, args.items)
                  [] args.op = "insert" -> InsertCall(args.index, args.items)
                  [] args.op = "append" -> AppendCall(args.items)
                  [] args.op = "prepend" -> PrependCall(args.items)
                  [] args.op = "shift" -> ShiftCall
                  [] args.op = "pop" -> PopCall
                  [] args.op = "remove" -> RemoveCall(args.items[1])
     IN Mutate(r.T, r.ret)

SpecCall == InitCall /\ [][Apply]_vars

\* Mutation calls alone, in any order.
SpecMut == Init /\ [][Mutation]_vars

\* Mutation calls, with numeric and non-numeric insertion indices.
NextThrow == Mutation \/ DoInsertNonNumber
SpecThrow == Init /\ [][NextThrow]_vars

\* bind, unbind and unbindAll calls and bound events emitted by stages, on a
\* pipeline without stages.
NextRebind == Rebinding
SpecRebind == Init /\ [][NextRebind]_vars

\* Mutation calls and stage errors, in any order.
NextErr == Mutation \/ StageError
SpecErr == Init /\ [][NextErr]_vars

\* Mutation calls and bind calls, in any order.
NextBind == Mutation \/ DoBind
SpecBind == Init /\ [][NextBind]_vars

\* Data flow through a constructed pipeline whose topology is left alone.
AllStages == <<"A", "B", "C", "D">>
Chain(n) == SubSeq(AllStages, 1, n)

InitFlow ==
  /\ Idle
  /\ args = NoArgs
  /\ \E n \in 0..MaxLen : Built(constructor(Chain(n)))

\* The stages of a constructed pipeline are bound, emit bound events and are
\* removed.
NextUnhook == DoBindMember \/ StageEmit \/ DoRemove
SpecUnhook == InitFlow /\ [][NextUnhook]_vars

\* Writes to a constructed pipeline while its stages work and the head of the
\* list is shifted off; nothing is pulled.
NextWrite == Write \/ Transform \/ PipeFlow \/ DoShift
SpecWrite == InitFlow /\ [][NextWrite]_vars

\* The steps of the stages, of the event loop and of the consumer; writing and
\* ending are up to the producer.
Flowing ==
  \/ Transform
  \/ PipeFlow
  \/ Pull
  \/ StageReadable
  \/ StageEnd
  \/ Finish
  \/ Consume
  \/ EmitEnd

\* The stages honour the Stage Contract, the event loop runs what is pending
\* and the consumer keeps pulling: while such a step is possible, one is
\* eventually taken.  Every such step moves a chunk or a signal forward and
\* none undoes another, so this leaves no step pending for ever.
FairFlow == WF_vars(Flowing)

SpecFlow == InitFlow /\ [][DataFlow]_vars /\ FairFlow

\* A stage that is not in the list and holds nothing: it was never used, or it
\* cannot be told from one that was not.
Unused(s) ==
  /\ s \notin Range(streams)
  /\ wq[s] = <<>>
  /\ buf[s] = <<>>
  /\ ~ended[s] /\ ~endEmitted[s] /\ ~eofRead[s]

\* The stage objects a reconfiguration may add.
Pool == Chain(MaxLen - 1)

\* The fresh stage handed to a call: the first unused one of the pool, if there
\* is one.
FreshStages ==
  {<<Pool[i]>> : i \in {j \in 1..Len(Pool) :
                          /\ Unused(Pool[j])
                          /\ \A k \in 1..(j - 1) : ~Unused(Pool[k])}}

\* insert(index, stage) of a fresh stage at any position of the list.
InsertFresh ==
  \E r \in {InsertCall(index, items) :
              index \in 0..Len(streams), items \in FreshStages} :
    Mutate(r.T, r.ret)

\* Chunks flowing while fresh stages are inserted and stages are removed, at
\* any position of the list; the pipeline is not ended.
NextSplice ==
  \/ Write
  \/ Transform
  \/ PipeFlow
  \/ Pull
  \/ StageReadable
  \/ Consume
  \/ InsertFresh
  \/ DoRemove
SpecSplice == Init /\ [][NextSplice]_vars /\ FairFlow

\* A constructed pipeline is ended and closes down, stage after stage, while
\* stages are taken off either end of the list; the consumer keeps pulling.
NextClose ==
  \/ End
  \/ Finish
  \/ StageEnd
  \/ Pull
  \/ StageReadable
  \/ EmitEnd
  \/ DoShift
  \/ DoPop
SpecClose == InitFlow /\ [][NextClose]_vars /\ FairFlow

\* Chunks flowing through [A, B, C] while splice(1, 1, D) replaces B by D; the
\* pipeline is not ended.
InitReplace ==
  /\ Idle
  /\ args = NoArgs
  /\ Built(constructor(<<"A", "B", "C">>))

Replace ==
  /\ streams = <<"A", "B", "C">>
  /\ LET r == SpliceCall(1, <<1>>, <<"D">>) IN Mutate(r.T, r.ret)

NextReplace ==
  \/ Write
  \/ Transform
  \/ PipeFlow
  \/ Pull
  \/ StageReadable
  \/ Consume
  \/ Replace
SpecReplace == InitReplace /\ [][NextReplace]_vars /\ FairFlow

\* ------------------------------------------------------------------ claims
\* The pipe connections that exist, and the adjacent pairs of the stage list.
PipeSet == {p \in Stages \X Stages : p[2] \in Range(pipes[p[1]])}
Adjacent == {<<streams[i], streams[i + 1]>> : i \in 1..(Len(streams) - 1)}

\* C1: after construction and after every mutation call has returned, the set
\* of active pipe connections is exactly the set of adjacent pairs of the
\* stage list: every adjacent pair is piped, and no pipe joins non-adjacent
\* stages or leads from or to a stage that is not in the list.
C1_PipesAreAdjacency == PipeSet = Adjacent

C1_Witness ==
  /\ call.made
  /\ call.ret # <<>>
  /\ Len(streams) = MaxLen
  /\ PipeSet = Adjacent

\* Ordered-sequence splicing, the reference of C2 and C3: a negative index
\* counts from the end, an omitted count removes everything from the index to
\* the end, and the count is clamped into [0, n - index].
SeqSplice(list, index, rm, items) ==
  LET n == Len(list)
      start == IF index < 0 THEN Max(n + index, 0) ELSE Min(index, n)
      count == IF rm = <<>> THEN n - start ELSE Min(Max(rm[1], 0), n - start)
  IN [list    |-> SubSeq(list, 1, start) \o items \o SubSeq(list, start + count + 1, n),
      removed |-> SubSeq(list, start + 1, start + count)]

\* The abstract ordered list after the call of args.
AbstractList ==
  CASE args.op = "splice" ->
         SeqSplice(args.before, args.index, args.remove, args.items).list
    [] args.op = "insert" ->
         SeqSplice(args.before, args.index, <<0>>, args.items).list
    [] args.op = "append" -> args.before \o args.items
    [] args.op = "prepend" -> args.items \o args.before
    [] args.op = "shift" -> SubSeq(args.before, 2, Len(args.before))
    [] args.op = "pop" -> SubSeq(args.before, 1, Len(args.before) - 1)
    [] args.op = "remove" -> RemoveFirst(args.before, args.items[1])
    [] OTHER -> args.before

\* C2: after a mutation call, length is the number of stages of the abstract
\* ordered list the call was applied to, get(i) is its i-th stage for every i
\* in [0, length), and get(-k) is get(length - k) for 1 <= k <= length.
C2_ListMatchesAbstractList ==
  call.made =>
    /\ length = Len(AbstractList)
    /\ \A i \in 0..(Len(AbstractList) - 1) : get(i) = <<AbstractList[i + 1]>>
    /\ \A k \in 1..length : get(0 - k) = get(length - k)

\* C3: splice leaves the list equal to, and returns the removed sequence of,
\* ordered-sequence splicing, for every index, count and new stages.
C3_SpliceMirrorsSeqSplice ==
  call.made /\ args.op = "splice" =>
    LET ref == SeqSplice(args.before, args.index, args.remove, args.items)
    IN streams = ref.list /\ call.ret = ref.removed

Last == streams[Len(streams)]
Written == [i \in 1..nw |-> i]
IsPrefix(p, q) == Len(p) <= Len(q) /\ p = SubSeq(q, 1, Len(p))

\* C4: with the topology left alone and a consumer that keeps pulling, the
\* chunks written come out exactly once each and in the order written: what
\* was delivered is always a prefix of what was written, and every chunk
\* written is eventually delivered.
C4_WrittenIsDelivered ==
  /\ [](IsPrefix(delivered, Written))
  /\ \A c \in Chunks : (nw >= c) ~> (Len(delivered) >= c)

C4_Witness ==
  /\ Len(streams) = MaxLen
  /\ nw = MaxChunks
  /\ delivered = Written

\* The chunks queued on a stage's writable side.
WqChunks(s) == [i \in 1..Len(wq[s]) |-> wq[s][i].c]

\* The route A -> D -> C -> output, place by place.
Route ==
  <<WqChunks("A"), buf["A"], WqChunks("D"), buf["D"], WqChunks("C"), buf["C"],
    out, delivered>>

Occurrences(q, c) == Cardinality({i \in 1..Len(q) : q[i] = c})

\* The place of chunk c on the route; 0 when it is not at exactly one place.
Place(c) ==
  LET at == {k \in 1..Len(Route) : c \in Range(Route[k])}
  IN IF Cardinality(at) = 1 /\ \A k \in at : Occurrences(Route[k], c) = 1
     THEN CHOOSE k \in at : TRUE
     ELSE 0

Replaced == streams = <<"A", "D", "C">>
WrittenAfter == {c \in Chunks : mark < c /\ c <= nw}

\* C5: once splice(1, 1, D) has returned on [A, B, C], B has no pipe from A
\* and none to C, the pipes are A -> D -> C, every chunk written afterwards is
\* at exactly one place of the route A, D, C, output, moves along it one place
\* at a time, is never in B, and eventually reaches the consumer.
C5_RoutedThroughReplacement ==
  /\ [](Replaced =>
          /\ pipes["A"] = <<"D">> /\ pipes["D"] = <<"C">>
          /\ pipes["C"] = <<>> /\ pipes["B"] = <<>>
          /\ \A c \in WrittenAfter :
               /\ Place(c) # 0
               /\ c \notin Range(WqChunks("B")) \cup Range(buf["B"]))
  /\ [][Replaced /\ Replaced' =>
          \A c \in WrittenAfter : Place(c)' \in {Place(c), Place(c) + 1}]_vars
  /\ \A c \in Chunks :
       (Replaced /\ c \in WrittenAfter) ~> (c \in Range(delivered))

C5_Witness ==
  /\ Replaced
  /\ mark >= 1
  /\ nw = MaxChunks
  /\ MaxChunks \in Range(delivered)
  /\ mark < MaxChunks

\* A stage with no pipe to or from any stage, no error handler, no flow
\* listener, a cleared listener registry and no forwarding handler attached.
Detached(s) ==
  /\ pipes[s] = <<>>
  /\ \A t \in Stages : s \notin Range(pipes[t])
  /\ errH[s] = 0
  /\ readL[s] = 0
  /\ endL[s] = 0
  /\ reg[s] = NoListeners
  /\ \A e \in Events : att[s][e] = 0

\* C6: when splice, remove, shift or pop returns, every stage it returns is
\* fully detached.
C6_RemovedAreDetached ==
  call.made => \A s \in Range(call.ret) : Detached(s)

C6_Witness ==
  /\ call.made
  /\ call.ret # <<>>
  /\ streams # <<>>
  /\ \A s \in Range(call.ret) : Detached(s)
  /\ \E t \in Stages : reg[t].on

\* C7: after any sequence of mutations a stage has the error handler attached
\* (once) if and only if it is in the stage list; an error raised by a member
\* is re-emitted exactly once, tagged with the stage that raised it, an error
\* raised by a stage that is not a member is not re-emitted, and handling the
\* error changes neither the stage list nor the wiring nor the data flow.
C7_ErrorHandlerIffMember ==
  /\ [](\A s \in Stages : errH[s] = IF s \in Range(streams) THEN 1 ELSE 0)
  /\ [][raised' # raised =>
          /\ errLog' = IF raised'.stage \in Range(streams)
                       THEN <<[stream |-> raised'.stage]>>
                       ELSE <<>>
          /\ UNCHANGED <<topo, flow>>]_vars

C7_Witness ==
  /\ Len(streams) >= 2
  /\ raised.stage = streams[2]
  /\ errLog = <<[stream |-> raised.stage]>>
  /\ \E s \in Stages : s \notin Range(streams) /\ errH[s] = 0

\* C8: end() on a pipeline with stages ends stages[0] when the input side
\* completes, the close cascades through the pipes, the pipeline closes its
\* readable side when the last stage has emitted 'end' and not before, and it
\* eventually announces end-of-data; with no stages the input side's completion
\* closes the readable side itself and no stage is involved.
C8_EndPropagates ==
  /\ [](/\ finished /\ streams # <<>> => ended[streams[1]]
        /\ \A i \in 1..(Len(streams) - 1) :
             endEmitted[streams[i]] => ended[streams[i + 1]]
        /\ cEnded /\ streams # <<>> => endEmitted[Last]
        /\ streams = <<>> => (cEnded <=> finished)
        /\ streams = <<>> => \A s \in Stages : ~ended[s])
  /\ endCalled ~> cEndEmitted

C8_Witness ==
  /\ Len(streams) >= 2
  /\ nw = MaxChunks
  /\ cEndEmitted
  /\ \A s \in Range(streams) : endEmitted[s]

\* C9: a write on an empty stage list puts the chunk on the pipeline's own
\* readable side and completes at once; otherwise the chunk is queued on
\* stages[0] and on no other stage, _write returns what stages[0].write
\* returns, and the write completes exactly when stages[0] completes it.
C9_WriteGoesToFirstStage ==
  /\ [][nw' = nw + 1 =>
          IF streams = <<>>
          THEN /\ out' = Append(out, nw')
               /\ wq' = wq
               /\ wdone' = wdone + 1
               /\ ~writing'
               /\ wret' = "undefined"
          ELSE /\ wq' = [wq EXCEPT ![streams[1]] =
                                     Append(@, [c |-> nw', cb |-> TRUE])]
               /\ out' = out
               /\ wdone' = wdone
               /\ writing'
               /\ wret' = IF Len(wq'[streams[1]]) < HWM THEN "true" ELSE "false"]_vars
  /\ [][nw' = nw /\ wdone' # wdone =>
          \E s \in Stages :
            /\ wq[s] # <<>>
            /\ Head(wq[s]) = [c |-> nw, cb |-> TRUE]
            /\ wq'[s] = Tail(wq[s])
            /\ wdone' = wdone + 1
            /\ writing /\ ~writing']_vars
  /\ [](writing <=> \E s \in Stages : [c |-> nw, cb |-> TRUE] \in Range(wq[s]))

C9_Witness ==
  /\ streams # <<>>
  /\ writing
  /\ wret = "false"
  /\ Len(wq[streams[1]]) >= HWM
  /\ wq[streams[1]][Len(wq[streams[1]])] = [c |-> nw, cb |-> TRUE]
  /\ ~wq[streams[1]][1].cb

\* C10: a pull forwards the items it reads from the last stage to the
\* pipeline's readable side in read order, every item read is forwarded once
\* (the one whose forwarding reported saturation too), no item is read after a
\* forward signalled saturation, and what was not read stays in the last stage.
C10_PullStopsAtSaturation ==
  [][streams # <<>> /\ Len(buf'[Last]) < Len(buf[Last]) =>
       LET k == Len(buf[Last]) - Len(buf'[Last])
       IN /\ out' = out \o SubSeq(buf[Last], 1, k)
          /\ buf'[Last] = SubSeq(buf[Last], k + 1, Len(buf[Last]))
          /\ \A j \in 1..(k - 1) : Len(out) + j < HWM
          /\ buf'[Last] # <<>> => Len(out') >= HWM]_vars

C10_Witness ==
  /\ streams # <<>>
  /\ Len(out) = HWM
  /\ buf[Last] # <<>>
  /\ reading = FALSE

\* C17: after construction and after every mutation call has returned, the
\* 'readable' listener and the 'end' listener of the flow controller are each
\* attached exactly once to the last stage of the list and to no other stage,
\* and to no stage when the list is empty.
C17_FlowListenersOnLastOnly ==
  \A s \in Stages :
    LET copies == IF streams # <<>> /\ s = Last THEN 1 ELSE 0
    IN readL[s] = copies /\ endL[s] = copies

C17_Witness ==
  /\ call.made
  /\ Len(streams) >= 2
  /\ Last \notin Range(call.ret)
  /\ \E s \in Range(call.ret) : readL[s] = 0 /\ endL[s] = 0
  /\ readL[Last] = 1 /\ endL[Last] = 1
  /\ readL[streams[1]] = 0

\* A removal call with nothing to remove: shift() or pop() on an empty
\* pipeline, or remove(stage) of a stage that is not in the list.
NothingToRemove ==
  \/ streams = <<>> /\ DoShift
  \/ streams = <<>> /\ DoPop
  \/ \E stage \in Stages \ Range(streams) :
       Mutate(RemoveCall(stage).T, RemoveCall(stage).ret)

\* C16: a removal call with nothing to remove returns no stage and leaves the
\* stage list, the pipes, every listener attachment and every registry as
\* they were.
C16_NothingToRemoveIsNoOp ==
  [][NothingToRemove => call'.ret = <<>> /\ UNCHANGED <<topo, flow, logs>>]_vars

C16_Witness ==
  /\ call.made
  /\ call.ret = <<>>
  /\ streams = <<>>
  /\ \E t \in Stages : reg[t].on /\ \E e \in Events : att[t][e] = 1

\* C15: insert with a non-numeric index throws at the call and leaves the
\* stage list, the pipes, the flow listeners and the error handlers as they
\* were; no error handler is attached to the stages that were to be inserted.
C15_NonNumericInsertThrows ==
  [][DoInsertNonNumber =>
       /\ call'.threw
       /\ UNCHANGED <<topo, flow, logs>>
       /\ \A s \in Stages \ Range(streams) : errH'[s] = 0]_vars

C15_Witness ==
  /\ call.threw
  /\ Len(streams) >= 2
  /\ \A s \in Stages \ Range(streams) : errH[s] = 0

\* The forwarding handler the registry of s records for e is bound.
Bound(s, e) == reg[s].on /\ reg[s].h[e] = "fn"

\* C14: after any sequence of bind, unbind and unbindAll calls a forwarding
\* handler is attached for (stage, event) exactly when the registry records
\* one, and then once; an emission by a stage is re-emitted once by the
\* pipeline; unbindAll(stage) detaches every forwarding handler of the stage,
\* clears its registry and touches no other stage.
C14_OneHandlerPerStageAndEvent ==
  /\ [](\A s \in Stages, e \in Events :
          att[s][e] = IF Bound(s, e) THEN 1 ELSE 0)
  /\ [][fwdLog' # fwdLog =>
          \E s \in Stages, e \in Events :
            /\ Bound(s, e)
            /\ fwdLog' = Append(fwdLog, [from |-> s, event |-> e])]_vars
  /\ [][\A s \in Stages :
          Rebind(unbindAll(Self, s)) =>
            /\ reg'[s] = NoListeners
            /\ \A e \in Events : att'[s][e] = 0
            /\ \A t \in Stages \ {s} : reg'[t] = reg[t] /\ att'[t] = att[t]]_vars

C14_Witness ==
  \E s \in Stages :
    /\ Bound(s, "custom")
    /\ reg[s].h["other"] = "null"
    /\ att[s]["custom"] = 1
    /\ fwdLog = <<[from |-> s, event |-> "custom"]>>

\* C13: once remove(stage) has returned, the stage has no registry and no
\* forwarding handler, whatever had been bound on it, and an event it emits
\* afterwards is not re-emitted by the pipeline: every re-emission comes from
\* a stage that is in the list.
C13_RemovedStageIsUnhooked ==
  /\ [](\A s \in Stages \ Range(streams) :
          reg[s] = NoListeners /\ \A e \in Events : att[s][e] = 0)
  /\ [][fwdLog' # fwdLog =>
          /\ Len(fwdLog') = Len(fwdLog) + 1
          /\ fwdLog'[Len(fwdLog')].from \in Range(streams)]_vars

C13_Witness ==
  \E s \in Stages, e \in Events :
    /\ fwdLog = <<[from |-> s, event |-> e]>>
    /\ call.made
    /\ call.ret = <<s>>
    /\ s \notin Range(streams)
    /\ att[s][e] = 0
    /\ streams # <<>>

\* C20: at most one resume handler, the one-shot '_read' listener registered
\* by a pull that read nothing, is pending on the pipeline.
C20_OneResumeHandler == resume <= 1

\* A pull that read nothing has registered a resume handler that has not run.
Suspended == resume > 0

\* C11: while the controller is suspended no pull attempt reads a stage until
\* a stage announces readiness, and the stage whose announcement runs the
\* resume handlers is the last stage of the list at that time.
C11_ResumesOnLastStageReadable ==
  /\ [][Suspended /\ streams # <<>> => ~Pull]_vars
  /\ [][StageReadable =>
          /\ streams # <<>>
          /\ readL[Last] > 0
          /\ buf[Last] # <<>> \/ (AtEOF(Last) /\ ~endEmitted[Last])
          /\ \A s \in Stages \ {Last} : readL[s] = 0]_vars

\* A chunk held by a stage that is not in the list: it was inside the stage
\* when the stage was removed.
Stranded(c) ==
  \E s \in Stages \ Range(streams) :
    c \in Range(WqChunks(s)) \cup Range(buf[s])

\* C12: whatever fresh stages are inserted and whatever stages are removed,
\* the chunks delivered are in the order written and none is delivered twice;
\* the same holds of what is delivered and what waits in the readable buffer.
C12_OrderPreserved ==
  LET d == delivered \o out
  IN \A i, j \in 1..Len(d) : i < j => d[i] < d[j]

C12_Witness ==
  /\ Len(delivered) >= 2
  /\ delivered[1] + 1 < delivered[2]
  /\ streams # <<>>
  /\ \E c \in Chunks : Stranded(c)

\* C18: every written chunk is eventually delivered, unless it was inside a
\* stage when that stage was removed.
C18_NoChunkLeftBehind ==
  \A c \in Chunks : (c <= nw) ~> (c \in Range(delivered) \/ Stranded(c))

\* C19: once end() has been called and the pipeline has finished, it
\* eventually emits 'end' to its readers, whatever stages are removed meanwhile.
C19_CompletionSurvivesSplice == (endCalled /\ finished) ~> cEndEmitted
====
